---- MODULE Spec2Model ----
(***************************************************************************)
(* Local-first itinerary store of src/src/App.tsx: the in-memory           *)
(* collection `stops`, the localStorage cache `kitatour_stops`, the        *)
(* optional Supabase table `stops`, and the handlers that keep them in     *)
(* step (loadData, syncData, addStop, toggleStatus, deleteStop).           *)
(*                                                                         *)
(* JavaScript runs each handler to completion up to its first `await`.     *)
(* A handler is modelled by its synchronous part and, when it issues a     *)
(* remote request, by the resolution of that request.  The synchronous     *)
(* part of a mutation is cut at the `if (isOnline && supabase)` test       *)
(* (lines 101 and 152); the variable pc holds the position and no other    *)
(* action is enabled until the handler has reached its await or its end.   *)
(***************************************************************************)
EXTENDS Integers, Sequences, FiniteSets, TLC

\* ---------------------------------------------------------------- bounds
\* The number of user operations (add, status change, delete) in a behaviour:
\* with a remote store configured, and with none.
MaxCalls == 2
MaxLocalCalls == 3

\* ------------------------------------------------------------ data model
NULL == "null"
Statuses == {"planned", "visited", "skipped"}
ForceArgs == {NULL} \cup Statuses

\* <input type="date"> and <input type="time"> values: a day number and the
\* minute of the day (08:00 and 09:00).
Dates == {1, 2}
Times == {8 * 60, 9 * 60}
Titles == {"Candi Borobudur"}
Addresses == {"Magelang"}
CostInputs == {"", "2"}

\* `${date}T${time}`
DateTimeString(date, time) == <<date, time>>

\* date-fns parseISO: the instant of a "yyyy-MM-ddTHH:mm" string, in minutes.
parseISO(s) == s[1] * 24 * 60 + s[2]

\* date-fns compareAsc
compareAsc(a, b) == IF a < b THEN 0 - 1 ELSE IF a > b THEN 1 ELSE 0

\* Number(formData.get('cost')) || 0
JSNumber(raw) == CASE raw = "" -> 0 [] raw = "1" -> 1 [] raw = "2" -> 2
OrZero(n) == IF n = 0 THEN 0 ELSE n
CostOfInput(raw) == OrZero(JSNumber(raw))

Stop(id, title, address, dateTime, cost, status, order) ==
  [id |-> id, title |-> title, address |-> address, dateTime |-> dateTime,
   cost |-> cost, status |-> status, order |-> order]

\* JSON.stringify / JSON.parse of a Stop[]: the text lists, per stop, the
\* values of its keys in insertion order.
StopToJSON(s) ==
  <<s.id, s.title, s.address, s.dateTime, s.cost, s.status, s.order>>
StopFromJSON(t) == Stop(t[1], t[2], t[3], t[4], t[5], t[6], t[7])
JSONstringify(ss) == [i \in 1..Len(ss) |-> StopToJSON(ss[i])]
JSONparse(text) == [i \in 1..Len(text) |-> StopFromJSON(text[i])]

\* Rows left by earlier sessions.  RA was added first (order 0) for 09:00,
\* RB second (order 1) for 08:00.
RA == Stop(101, "Candi Borobudur", "Magelang", <<1, 9 * 60>>, 1, "planned", 0)
RB == Stop(102, "Candi Borobudur", "Magelang", <<1, 8 * 60>>, 2, "planned", 1)

\* localStorage.getItem: null for a key never set, else the text stored.
NoItem == [has |-> FALSE, text |-> <<>>]
Item(text) == [has |-> TRUE, text |-> text]
InitCaches == {NoItem, Item(JSONstringify(<<RB, RA>>))}
InitRemotes == {{}, {RA, RB}}

\* crypto.randomUUID() in the n-th user operation: a value no stop holds.
FreshId(n) == n
UnknownId == 0

VARIABLES
  stops,       \* useState<Stop[]>              (line 32)
  isLoading,   \* useState(true)                (line 36)
  isOnline,    \* useState(navigator.onLine)    (line 37)
  supabase,    \* TRUE iff the client is configured (lib/supabase.ts 6-8)
  localCache,  \* localStorage 'kitatour_stops': NoItem or Item(JSON text)
  remote,      \* the rows of the Supabase table `stops`
  inflight,    \* remote requests awaiting their response, in issue order
  pc,          \* position of the running handler
  calls,       \* number of user operations so far
  uncaught,    \* TRUE once a rejection escaped a handler
  last,        \* the step taken last (history)
  aiInsights,  \* useState<{costs?, weather?, ...} | null>(null)  (38-43)
  isLoadingAi, \* useState(false)              (line 44)
  aiCache,     \* localStorage 'ai_cache_<id>': the entries set so far
  genInflight, \* generateContent calls awaiting their response
  effectDeps   \* the dependencies the insight effect last ran with (257)

storeVars == <<stops, isLoading, isOnline, supabase, localCache, remote,
               inflight, pc, calls, uncaught>>
aiVars == <<aiInsights, isLoadingAi, aiCache, genInflight, effectDeps>>
vars == <<stops, isLoading, isOnline, supabase, localCache, remote, inflight,
          pc, calls, uncaught, last, aiInsights, isLoadingAi, aiCache,
          genInflight, effectDeps>>

\* pc: where the running handler stands (at), which handler it is (op), its
\* arguments (id, force), the status the stop `id` had when it was called
\* (prev) and the collection it computed (updated).
At(at, op, updated, id, force, prev) ==
  [at |-> at, op |-> op, updated |-> updated, id |-> id, force |-> force,
   prev |-> prev]
Idle == At("idle", NULL, <<>>, UnknownId, NULL, NULL)
Request(kind, rows, id) == [kind |-> kind, rows |-> rows, id |-> id]
Step(op, outcome) == [op |-> op, outcome |-> outcome]

Outcomes == {"ok", "error", "throw"}

RemoveAt(s, i) == SubSeq(s, 1, i - 1) \o SubSeq(s, i + 1, Len(s))
Range(s) == {s[i] : i \in 1..Len(s)}
Ids(ss) == {ss[i].id : i \in 1..Len(ss)}

\* -------------------------------------------------------- derived values
\* Array.prototype.sort is stable: an element goes after every element that
\* does not compare greater.
SortCmp(a, b) == compareAsc(parseISO(a.dateTime), parseISO(b.dateTime))
\* Mutant: an element goes before the elements it compares equal to.
InsertBeforeEqual(sorted, x) ==
  LET n == Cardinality({i \in 1..Len(sorted) : SortCmp(sorted[i], x) < 0})
  IN  SubSeq(sorted, 1, n) \o <<x>> \o SubSeq(sorted, n + 1, Len(sorted))
InsertStable(sorted, x) ==
  LET n == Cardinality({i \in 1..Len(sorted) : SortCmp(sorted[i], x) <= 0})
  IN  SubSeq(sorted, 1, n) \o <<x>> \o SubSeq(sorted, n + 1, Len(sorted))
RECURSIVE SortStops(_)
SortStops(ss) ==
  IF ss = <<>> THEN <<>>
  ELSE InsertStable(SortStops(SubSeq(ss, 1, Len(ss) - 1)), ss[Len(ss)])

Filter(ss, status) == SelectSeq(ss, LAMBDA s : s.status = status)
\* Array.prototype.find: the first match, or undefined.
Undefined == Stop(UnknownId, "", "", <<0, 0>>, 0, NULL, 0)
Find(ss, status) ==
  IF Filter(ss, status) = <<>> THEN Undefined ELSE Head(Filter(ss, status))

SortedStopsOf(ss) == SortStops(ss)
\* Mutant: the first planned stop of the unsorted collection.
NextStopUnsorted(ss) == Find(ss, "planned")
NextStopOf(ss) == Find(SortedStopsOf(ss), "planned")
RECURSIVE Reduce(_, _)
Reduce(ss, acc) ==
  IF ss = <<>> THEN acc ELSE Reduce(Tail(ss), acc + OrZero(Head(ss).cost))
\* Mutant: skipped stops are left out of the total.
TotalCostUnskipped(ss) == Reduce(SelectSeq(ss, LAMBDA s : s.status # "skipped"), 0)
TotalCostOf(ss) == Reduce(ss, 0)

sortedStops == SortedStopsOf(stops)
nextStop == NextStopOf(stops)
skippedStops == Filter(sortedStops, "skipped")
completedStops == Filter(sortedStops, "visited")
totalCost == TotalCostOf(stops)

\* --------------------------------------------------------- insight data
\* The object fetchAiInsights shows (lines 38-43): four optional strings.  A
\* key the object lacks reads NULL.
Insight(costs, weather, recommendations, tips) ==
  [costs |-> costs, weather |-> weather, recommendations |-> recommendations,
   tips |-> tips]
EmptyObject == Insight(NULL, NULL, NULL, NULL)

\* A text, by what JSON.parse and `||` make of it: the empty string, a text
\* that is not JSON, or the JSON text of an object (its key/value pairs).
EmptyString == [blank |-> TRUE, json |-> FALSE, pairs |-> <<>>]
Prose == [blank |-> FALSE, json |-> FALSE, pairs |-> <<>>]
ObjectText(pairs) == [blank |-> FALSE, json |-> TRUE, pairs |-> pairs]

\* JSON.stringify(data): the keys the object has, in insertion order.
JSONstringifyInsight(d) ==
  ObjectText(SelectSeq(<<<<"costs", d.costs>>, <<"weather", d.weather>>,
                         <<"recommendations", d.recommendations>>,
                         <<"tips", d.tips>>>>,
                       LAMBDA kv : kv[2] # NULL))
\* JSON.parse throws a SyntaxError on a text that is not JSON.
SyntaxError(text) == ~text.json
ValueOfKey(pairs, key) ==
  IF \E i \in 1..Len(pairs) : pairs[i][1] = key
    THEN pairs[CHOOSE i \in 1..Len(pairs) : pairs[i][1] = key][2]
    ELSE NULL
JSONparseInsight(text) ==
  Insight(ValueOfKey(text.pairs, "costs"), ValueOfKey(text.pairs, "weather"),
          ValueOfKey(text.pairs, "recommendations"),
          ValueOfKey(text.pairs, "tips"))
\* `response.text || '{}'` (line 204)
OrEmptyObject(text) == IF text.blank THEN ObjectText(<<>>) ELSE text

\* What generateContent may answer: the call rejects, or resolves with a
\* text that is empty, is not JSON, or is the JSON of the four keys asked
\* for (two different answers, the service being free to vary).
GeneratedInsight(n) ==
  IF n = 1
    THEN Insight("Tiket Rp 50rb", "Cerah", "Bukit Rhema", "Datang pagi")
    ELSE Insight("Tiket Rp 75rb", "Hujan ringan", "Punthuk Setumbu", "Bawa payung")
GeneratedInsights == {GeneratedInsight(1), GeneratedInsight(2)}
GenTexts ==
  {EmptyString, Prose} \cup {JSONstringifyInsight(d) : d \in GeneratedInsights}
GenResponse(rejected, text) == [rejected |-> rejected, text |-> text]
GenResponses ==
  {GenResponse(TRUE, EmptyString)} \cup {GenResponse(FALSE, t) : t \in GenTexts}
\* The call as the closure of fetchAiInsights holds it: cacheKey, stop.title.
GenRequest(stop) == [id |-> stop.id, title |-> stop.title]

\* localStorage under the keys `ai_cache_${stop.id}` (lines 170-171, 207).
NoAiItem == [has |-> FALSE, text |-> EmptyString]
AiItem(text) == [has |-> TRUE, text |-> text]
\* Mutant: the cache is never found to hold an entry.
GetAiItemNever(cache, id) == NoAiItem
GetAiItem(cache, id) ==
  IF \E e \in cache : e.id = id
    THEN AiItem((CHOOSE e \in cache : e.id = id).text)
    ELSE NoAiItem
SetAiItem(cache, id, text) ==
  {e \in cache : e.id # id} \cup {[id |-> id, text |-> text]}
\* An earlier session may have cached an answer for RA.
InitAiCaches ==
  {{}, SetAiItem({}, RA.id, JSONstringifyInsight(GeneratedInsight(1)))}

\* aiInsights: null, or the object shown.
NoInsight == [has |-> FALSE, data |-> EmptyObject]
Shown(d) == [has |-> TRUE, data |-> d]

\* The titles as strings of characters, for toLowerCase and includes.
AiTitles == {"Pantai Kuta", "Taman Sari"}
Chars(title) ==
  CASE title = "Pantai Kuta" ->
         <<"P", "a", "n", "t", "a", "i", " ", "K", "u", "t", "a">>
    [] title = "Taman Sari" ->
         <<"T", "a", "m", "a", "n", " ", "S", "a", "r", "i">>
    [] title = "Candi Borobudur" ->
         <<"C", "a", "n", "d", "i", " ", "B", "o", "r", "o", "b", "u", "d",
           "u", "r">>
    [] title = "" -> <<>>
LowerChar(c) ==
  CASE c = "B" -> "b" [] c = "C" -> "c" [] c = "K" -> "k" [] c = "P" -> "p"
    [] c = "S" -> "s" [] c = "T" -> "t" [] OTHER -> c
\* Mutant: the title is matched as typed.
toLowerCaseAsTyped(t) == t
toLowerCase(t) == [i \in 1..Len(t) |-> LowerChar(t[i])]
includes(t, w) ==
  \E i \in 0..(Len(t) - Len(w)) : SubSeq(t, i + 1, i + Len(w)) = w

\* getSmartFallback (lines 217-239)
getSmartFallback(title) ==
  LET t == toLowerCase(Chars(title))
      beach == includes(t, <<"p", "a", "n", "t", "a", "i">>)
      temple == \/ includes(t, <<"c", "a", "n", "d", "i">>)
                \/ includes(t, <<"m", "u", "s", "e", "u", "m">>)
      food == \/ includes(t, <<"m", "a", "k", "a", "n">>)
              \/ includes(t, <<"r", "e", "s", "t", "o">>)
              \/ includes(t, <<"k", "u", "l", "i", "n", "e", "r">>)
      tips == IF beach THEN "Bawa sunblock, baju ganti, dan kacamata hitam."
              ELSE IF temple THEN "Gunakan sepatu nyaman dan bawa topi."
              ELSE IF food THEN "Cek ulasan terbaru untuk menu andalan."
              ELSE "Siapkan peta offline dan air minum."
      costs == IF beach THEN "Biasanya ada biaya parkir & sewa payung."
               ELSE IF temple
                 THEN "Siapkan biaya tiket masuk (biasanya Rp 20rb - 100rb)."
               ELSE IF food THEN "Estimasi Rp 50rb - 150rb per orang."
               ELSE "Siapkan uang tunai untuk parkir/jajan."
  IN  Insight(costs, "Cek langit secara manual (Mode Offline)",
              "Tanya warga lokal untuk spot terbaik.", tips)

\* The dependency array of the insight effect: [nextStop?.id] (line 257).
\* Mutant: the effect also depends on the connectivity flag.
EffectDepsWithOnline(ss, online) == <<NextStopOf(ss).id, online>>
EffectDeps(ss, online) == <<NextStopOf(ss).id>>

\* The state the first render and the first run of the insight effect leave:
\* with no stop yet the effect sets null (lines 251-256).
InitInsight ==
  /\ aiInsights = NoInsight
  /\ isLoadingAi = FALSE
  /\ genInflight = <<>>
  /\ effectDeps = EffectDeps(<<>>, isOnline)

\* ------------------------------------------------------------------ Init
\* The component after its first render, before the mount effect has run.
Init ==
  /\ stops = <<>>
  /\ isLoading = TRUE
  /\ isOnline \in BOOLEAN
  /\ supabase \in BOOLEAN
  /\ localCache \in InitCaches
  /\ remote \in InitRemotes
  /\ inflight = <<>>
  /\ pc = At("mount", "loadData", <<>>, UnknownId, NULL, NULL)
  /\ calls = 0
  /\ uncaught = FALSE
  /\ last = Step("init", NULL)
  /\ aiCache = {}
  /\ InitInsight

\* `if (isOnline && supabase)` (lines 69, 102, 152)
\* Mutant: the connectivity flag is not consulted.
ShouldSyncIgnoringOnline(online, client) == client
ShouldSync(online, client) == online /\ client

\* try { ... } catch (err) { console.error(...) } around every remote call
\* (lines 70-83, 103-113, 153-157): does a failure escape the handler?
\* `if (error) throw error` follows the select and the upsert; deleteStop
\* never reads the result of its delete.
Thrown(kind, outcome) ==
  outcome = "throw" \/ (outcome = "error" /\ kind \in {"select", "upsert"})
\* Mutant: loadData awaits its select outside any try.
InTryMutationsOnly(kind) == kind \in {"upsert", "delete"}
InTry(kind) == kind \in {"select", "upsert", "delete"}
Propagates(kind, outcome) == Thrown(kind, outcome) /\ ~InTry(kind)

\* The render returns the spinner, and nothing to click, while
\* isLoading && stops.length === 0 (line 259).
UiReady == ~(isLoading /\ Len(stops) = 0)
CallBudget == IF supabase THEN MaxCalls ELSE MaxLocalCalls
CanCall == pc = Idle /\ UiReady /\ calls < CallBudget

\* ------------------------------------------------------------- loadData
\* `if (cached) setStops(JSON.parse(cached))` (lines 63-66)
ProvisionalStops(cached, cur) == IF cached.has THEN JSONparse(cached.text) ELSE cur

\* Lines 59-75 and, when no request is made, 86.
LoadData ==
  /\ pc.at = "mount"
  /\ stops' = ProvisionalStops(localCache, stops)
  /\ IF ShouldSync(isOnline, supabase)
       THEN /\ inflight' = Append(inflight, Request("select", <<>>, UnknownId))
            /\ isLoading' = TRUE
       ELSE /\ inflight' = inflight
            /\ isLoading' = FALSE
  /\ pc' = Idle
  /\ last' = Step("loadData", NULL)
  /\ UNCHANGED <<isOnline, supabase, localCache, remote, calls, uncaught>>
  /\ UNCHANGED aiVars

\* .select('*').order('order', { ascending: true }): every row, by `order`;
\* rows of equal `order` come in any order.
SelectAll(rows) ==
  LET n == Cardinality(rows)
  IN  {s \in [1..n -> rows] :
         /\ \A i, j \in 1..n : i # j => s[i] # s[j]
         /\ \A i, j \in 1..n : i < j => s[i].order <= s[j].order}

\* `if (data) { setStops(data); localStorage.setItem(..., stringify(data)) }`
\* Mutant: the fetched rows are merged with the stops only the device holds.
LoadedStopsMerged(data, cur) ==
  data \o SelectSeq(cur, LAMBDA s : s.id \notin Ids(data))
LoadedStops(data, cur) == data
LoadedCache(data, cache) == Item(JSONstringify(data))

\* Lines 76-86: the continuation of loadData once the select has answered.
ResolveSelect(i, outcome) ==
  /\ pc = Idle
  /\ i \in 1..Len(inflight)
  /\ inflight[i].kind = "select"
  /\ inflight' = RemoveAt(inflight, i)
  /\ IF outcome = "ok"
       THEN \E data \in SelectAll(remote) :
              /\ stops' = LoadedStops(data, stops)
              /\ localCache' = LoadedCache(data, localCache)
       ELSE UNCHANGED <<stops, localCache>>
  /\ uncaught' = (uncaught \/ (outcome # "ok" /\ Propagates("select", outcome)))
  /\ isLoading' = IF outcome # "ok" /\ Propagates("select", outcome)
                    THEN isLoading ELSE FALSE
  /\ last' = Step("resolveSelect", outcome)
  /\ UNCHANGED <<isOnline, supabase, remote, pc, calls>>
  /\ UNCHANGED aiVars

\* ------------------------------------------------- connectivity (46-56)
\* Mutant: coming back online pushes the collection to the remote store.
HandleOnlineResync ==
  /\ pc = Idle
  /\ ~isOnline
  /\ isOnline' = TRUE
  /\ inflight' = IF supabase
                   THEN Append(inflight, Request("upsert", stops, UnknownId))
                   ELSE inflight
  /\ last' = Step("online", NULL)
  /\ UNCHANGED <<stops, isLoading, supabase, localCache, remote, pc, calls,
                 uncaught>>
  /\ UNCHANGED aiVars

HandleOnline ==
  /\ pc = Idle
  /\ ~isOnline
  /\ isOnline' = TRUE
  /\ last' = Step("online", NULL)
  /\ UNCHANGED <<stops, isLoading, supabase, localCache, remote, inflight, pc,
                 calls, uncaught>>
  /\ UNCHANGED aiVars

HandleOffline ==
  /\ pc = Idle
  /\ isOnline
  /\ isOnline' = FALSE
  /\ last' = Step("offline", NULL)
  /\ UNCHANGED <<stops, isLoading, supabase, localCache, remote, inflight, pc,
                 calls, uncaught>>
  /\ UNCHANGED aiVars

\* ------------------------------------------------------------- syncData
\* `setStops(updatedStops); localStorage.setItem(..., stringify(updatedStops))`
\* (lines 98-99, and 149-150 in deleteStop)
SyncedStops(updated, cur) == updated
\* Mutant: the cache write is left for later.
SyncedCacheDeferred(updated, cache) == cache
SyncedCache(updated, cache) == Item(JSONstringify(updated))

\* The batch handed to .upsert(updatedStops, { onConflict: 'id' }) (106-108)
UpsertRows(updated) == updated

\* Lines 98-99 for the handler `op` called with `id` and `force`.
SyncLocal(op, updated, id, force, prev) ==
  /\ stops' = SyncedStops(updated, stops)
  /\ localCache' = SyncedCache(updated, localCache)
  /\ pc' = At("syncData", op, updated, id, force, prev)
  /\ last' = Step(op, NULL)

\* Lines 101-114 up to the await: the upsert is issued, or nothing is.
SyncRemote ==
  /\ pc.at = "syncData"
  /\ inflight' = IF ShouldSync(isOnline, supabase)
                   THEN Append(inflight, Request("upsert", UpsertRows(pc.updated), UnknownId))
                   ELSE inflight
  /\ pc' = Idle
  /\ last' = Step("syncRemote", NULL)
  /\ UNCHANGED <<stops, isLoading, isOnline, supabase, localCache, remote,
                 calls, uncaught>>
  /\ UNCHANGED aiVars

\* -------------------------------------------------------------- addStop
\* Lines 120-131: the new stop and the re-sorted collection.
NewStop(title, address, date, time, costRaw, cur, uuid) ==
  Stop(uuid, title, address, DateTimeString(date, time), CostOfInput(costRaw),
       "planned", Len(cur))
AddUpdated(cur, newStop) == SortStops(Append(cur, newStop))

AddStop(title, address, date, time, costRaw) ==
  /\ CanCall
  /\ LET newStop == NewStop(title, address, date, time, costRaw, stops,
                            FreshId(calls + 1))
     IN  SyncLocal("addStop", AddUpdated(stops, newStop), newStop.id, NULL, NULL)
  /\ calls' = calls + 1
  /\ UNCHANGED <<isLoading, isOnline, supabase, remote, inflight, uncaught>>
  /\ UNCHANGED aiVars

\* --------------------------------------------------------- toggleStatus
\* `forceStatus || (s.status === 'visited' ? 'planned' : 'visited')` (139)
\* Mutant: a target equal to the current status flips the stop instead.
NextStatusFlipWhenSame(status, force) ==
  IF force # NULL /\ force # status THEN force
  ELSE IF status = "visited" THEN "planned" ELSE "visited"
NextStatus(status, force) ==
  IF force # NULL THEN force
  ELSE IF status = "visited" THEN "planned" ELSE "visited"

\* Lines 137-143
\* Mutant: when the id is found, every stop takes the new status.
ToggleUpdatedAll(cur, id, force) ==
  [i \in 1..Len(cur) |->
     IF id \in Ids(cur)
       THEN [cur[i] EXCEPT !.status = NextStatus(cur[i].status, force)]
       ELSE cur[i]]
ToggleUpdated(cur, id, force) ==
  [i \in 1..Len(cur) |->
     IF cur[i].id = id
       THEN [cur[i] EXCEPT !.status = NextStatus(cur[i].status, force)]
       ELSE cur[i]]

StatusOf(cur, id) ==
  IF id \in Ids(cur)
    THEN (CHOOSE s \in Range(cur) : s.id = id).status
    ELSE NULL

ToggleStatus(id, force) ==
  /\ CanCall
  /\ SyncLocal("toggleStatus", ToggleUpdated(stops, id, force), id, force,
               StatusOf(stops, id))
  /\ calls' = calls + 1
  /\ UNCHANGED <<isLoading, isOnline, supabase, remote, inflight, uncaught>>
  /\ UNCHANGED aiVars

\* ----------------------------------------------------------- deleteStop
\* Line 148
DeleteUpdated(cur, id) == SelectSeq(cur, LAMBDA s : s.id # id)

\* Lines 148-150
DeleteStop(id) ==
  /\ CanCall
  /\ LET updated == DeleteUpdated(stops, id)
     IN  /\ stops' = SyncedStops(updated, stops)
         /\ localCache' = SyncedCache(updated, localCache)
         /\ pc' = At("deleteStop", "deleteStop", updated, id, NULL,
                      StatusOf(stops, id))
  /\ last' = Step("deleteStop", NULL)
  /\ calls' = calls + 1
  /\ UNCHANGED <<isLoading, isOnline, supabase, remote, inflight, uncaught>>
  /\ UNCHANGED aiVars

\* The requests deleteStop issues when it syncs (line 154).
\* Mutant: deleteStop also pushes the whole collection.
DeleteThenPush(id, updated) ==
  <<Request("delete", <<>>, id), Request("upsert", updated, UnknownId)>>
DeleteRequests(id, updated) == <<Request("delete", <<>>, id)>>

\* Lines 152-158 up to the await.
DeleteRemote ==
  /\ pc.at = "deleteStop"
  /\ inflight' = IF ShouldSync(isOnline, supabase)
                   THEN inflight \o DeleteRequests(pc.id, pc.updated)
                   ELSE inflight
  /\ pc' = Idle
  /\ last' = Step("deleteRemote", NULL)
  /\ UNCHANGED <<stops, isLoading, isOnline, supabase, localCache, remote,
                 calls, uncaught>>
  /\ UNCHANGED aiVars

\* ------------------------------------------------- the remote's answers
\* INSERT ... ON CONFLICT (id) DO UPDATE: a row per id, the batch's winning.
Upserted(rows, batch) ==
  {r \in rows : r.id \notin Ids(batch)} \cup Range(batch)
\* DELETE ... WHERE id = id
Deleted(rows, id) == {r \in rows : r.id # id}

\* What a handler does with a failed mutation request: log it (112, 156).
\* Mutant: the failed request is sent again.
RetryAfterFailure(rest, request) == Append(rest, request)
AfterFailure(rest, request) == rest

\* Lines 110-113: the upsert has answered.
ResolveUpsert(i, outcome) ==
  /\ pc = Idle
  /\ i \in 1..Len(inflight)
  /\ inflight[i].kind = "upsert"
  /\ remote' = IF outcome = "ok" THEN Upserted(remote, inflight[i].rows) ELSE remote
  /\ inflight' = IF outcome = "ok" THEN RemoveAt(inflight, i)
                 ELSE AfterFailure(RemoveAt(inflight, i), inflight[i])
  /\ uncaught' = (uncaught \/ (outcome # "ok" /\ Propagates("upsert", outcome)))
  /\ last' = Step("resolveUpsert", outcome)
  /\ UNCHANGED <<stops, isLoading, isOnline, supabase, localCache, pc, calls>>
  /\ UNCHANGED aiVars

\* Lines 154-157: the delete has answered.
ResolveDelete(i, outcome) ==
  /\ pc = Idle
  /\ i \in 1..Len(inflight)
  /\ inflight[i].kind = "delete"
  /\ remote' = IF outcome = "ok" THEN Deleted(remote, inflight[i].id) ELSE remote
  /\ inflight' = IF outcome = "ok" THEN RemoveAt(inflight, i)
                 ELSE AfterFailure(RemoveAt(inflight, i), inflight[i])
  /\ uncaught' = (uncaught \/ (outcome # "ok" /\ Propagates("delete", outcome)))
  /\ last' = Step("resolveDelete", outcome)
  /\ UNCHANGED <<stops, isLoading, isOnline, supabase, localCache, pc, calls>>
  /\ UNCHANGED aiVars

\* ------------------------------------------------------- the buttons
\* The rendered tree calls the handlers only through these (lines 321-340,
\* 432-473, 606-697, 783): each button is shown for the stops its condition
\* admits.
ShowsAktifkan(s) == s.status = "skipped"            \* skippedStops.map, 321
ShowsSelesai(s) == s.status # "visited"             \* line 673
ShowsAktifkanKembali(s) == s.status = "skipped"     \* line 681
\* Mutant: "Lewati" is offered for every stop not yet skipped.
ShowsLewatiUnlessSkipped(s) == s.status # "skipped"
ShowsLewati(s) == s.status = "planned"              \* line 689

ClickAktifkan(i) ==                                 \* line 336
  /\ i \in 1..Len(stops) /\ ShowsAktifkan(stops[i])
  /\ ToggleStatus(stops[i].id, "planned")
ClickSelesaikan ==                                  \* line 462
  /\ nextStop # Undefined
  /\ ToggleStatus(nextStop.id, NULL)
ClickLewatiNext ==                                  \* line 469
  /\ nextStop # Undefined
  /\ ToggleStatus(nextStop.id, "skipped")
ClickSelesai(i) ==                                  \* line 675
  /\ i \in 1..Len(stops) /\ ShowsSelesai(stops[i])
  /\ ToggleStatus(stops[i].id, "visited")
ClickAktifkanKembali(i) ==                          \* line 683
  /\ i \in 1..Len(stops) /\ ShowsAktifkanKembali(stops[i])
  /\ ToggleStatus(stops[i].id, "planned")
ClickLewati(i) ==                                   \* line 691
  /\ i \in 1..Len(stops) /\ ShowsLewati(stops[i])
  /\ ToggleStatus(stops[i].id, "skipped")
ClickDelete(i) ==                                   \* line 645
  /\ i \in 1..Len(stops)
  /\ DeleteStop(stops[i].id)

\* ------------------------------------------------- insight resolution
\* fetchAiInsights up to its await (lines 168-187): the cached answer, else
\* offline the keyword fallback, else a generateContent call.
FetchAiInsights(stop) ==
  LET cached == GetAiItem(aiCache, stop.id)
  IN  /\ aiInsights' =
           IF cached.has THEN Shown(JSONparseInsight(cached.text))
           ELSE IF ~isOnline THEN Shown(getSmartFallback(stop.title))
           ELSE aiInsights
      /\ isLoadingAi' = IF ~cached.has /\ isOnline THEN TRUE ELSE isLoadingAi
      /\ genInflight' = IF ~cached.has /\ isOnline
                          THEN Append(genInflight, GenRequest(stop))
                          ELSE genInflight
      /\ aiCache' = aiCache

\* The effect has run for the dependencies of the current render.
EffectSettled == EffectDeps(stops, isOnline) = effectDeps

\* useEffect(..., [nextStop?.id]) (lines 250-257): runs after a render whose
\* dependencies differ from those of its last run.
RunEffect ==
  /\ pc = Idle
  /\ ~EffectSettled
  /\ effectDeps' = EffectDeps(stops, isOnline)
  /\ IF nextStop # Undefined
       THEN FetchAiInsights(nextStop)
       ELSE /\ aiInsights' = NoInsight
            /\ UNCHANGED <<isLoadingAi, aiCache, genInflight>>
  /\ last' = Step("effect", NULL)
  /\ UNCHANGED storeVars

\* Does the try block of lines 186-207 throw on this response?
GenFailed(response) ==
  response.rejected \/ SyntaxError(OrEmptyObject(response.text))
GenData(response) == JSONparseInsight(OrEmptyObject(response.text))

\* What was answered, for the history variable.
ResponseKind(response) ==
  IF response.rejected THEN "rejected"
  ELSE IF response.text.blank THEN "empty"
  ELSE IF ~response.text.json THEN "malformed"
  ELSE "ok"

\* Lines 204-214: generateContent has answered the i-th call in flight.
ResolveGenerate(i, response) ==
  /\ pc = Idle
  /\ i \in 1..Len(genInflight)
  /\ IF GenFailed(response)
       THEN /\ aiInsights' = Shown(getSmartFallback(genInflight[i].title))
            /\ aiCache' = aiCache
       ELSE /\ aiInsights' = Shown(GenData(response))
            /\ aiCache' = SetAiItem(aiCache, genInflight[i].id,
                                     JSONstringifyInsight(GenData(response)))
  /\ isLoadingAi' = FALSE
  /\ genInflight' = RemoveAt(genInflight, i)
  /\ effectDeps' = effectDeps
  /\ last' = Step("resolveGenerate", ResponseKind(response))
  /\ UNCHANGED storeVars

\* ------------------------------------------------------- specifications
\* Spec: the handlers called with any arguments, against a remote that may
\* answer every request with success, an error result or a rejection.
CallIds == Ids(stops) \cup {UnknownId}
SyncTimes == {8 * 60}
SyncCostInputs == {"2"}

\* ---------------------------------------------------------- the add form
\* <form onSubmit={addStop}> (line 783): the inputs title, address, date and
\* time are `required` (787, 800, 813, 823) and the form is validated, so the
\* browser dispatches the submit event only when none of them is blank.  A
\* text input left blank holds ""; a date or time input left blank holds no
\* day and no minute.
NoDate == 0
NoTime == 0 - 1
FormTitles == Titles \cup {""}
FormAddresses == Addresses \cup {""}
FormDates == Dates \cup {NoDate}
FormTimes == SyncTimes \cup {NoTime}

\* Mutant: the title input is not `required`.
FormValidTitleOptional(title, address, date, time) ==
  address # "" /\ date # NoDate /\ time # NoTime
FormValid(title, address, date, time) ==
  title # "" /\ address # "" /\ date # NoDate /\ time # NoTime

\* The submit event reaches addStop.
SubmitForm(title, address, date, time, costRaw) ==
  /\ FormValid(title, address, date, time)
  /\ AddStop(title, address, date, time, costRaw)

\* The browser withholds the submit event: no handler runs.
BlockedSubmit(title, address, date, time) ==
  /\ pc = Idle
  /\ UiReady
  /\ ~FormValid(title, address, date, time)
  /\ last' = Step("blockedSubmit", NULL)
  /\ UNCHANGED storeVars
  /\ UNCHANGED aiVars

Next ==
  \/ LoadData
  \/ \E i \in 1..Len(inflight), o \in Outcomes : ResolveSelect(i, o)
  \/ HandleOnline
  \/ HandleOffline
  \/ \E t \in Titles, a \in Addresses, d \in Dates, m \in SyncTimes,
        c \in SyncCostInputs : AddStop(t, a, d, m, c)
  \/ \E id \in CallIds, f \in ForceArgs : ToggleStatus(id, f)
  \/ \E id \in CallIds : DeleteStop(id)
  \/ SyncRemote
  \/ DeleteRemote
  \/ \E i \in 1..Len(inflight), o \in Outcomes : ResolveUpsert(i, o)
  \/ \E i \in 1..Len(inflight), o \in Outcomes : ResolveDelete(i, o)

Spec == Init /\ [][Next]_vars

\* SpecLocal: no remote store configured; the collection comes from the cache
\* of an earlier session and from adds with every date, time and cost.
\* <<RA, RB>> is the cache a load from the remote leaves (rows by `order`).
InitCachesLocal == InitCaches \cup {Item(JSONstringify(<<RA, RB>>))}

InitLocal ==
  /\ stops = <<>>
  /\ isLoading = TRUE
  /\ isOnline \in BOOLEAN
  /\ supabase = FALSE
  /\ localCache \in InitCachesLocal
  /\ remote = {}
  /\ inflight = <<>>
  /\ pc = At("mount", "loadData", <<>>, UnknownId, NULL, NULL)
  /\ calls = 0
  /\ uncaught = FALSE
  /\ last = Step("init", NULL)
  /\ aiCache = {}
  /\ InitInsight

NextLocal ==
  \/ LoadData
  \/ HandleOnline
  \/ HandleOffline
  \/ \E t \in Titles, a \in Addresses, d \in Dates, m \in Times,
        c \in CostInputs : AddStop(t, a, d, m, c)
  \/ \E id \in CallIds, f \in ForceArgs : ToggleStatus(id, f)
  \/ \E id \in CallIds : DeleteStop(id)
  \/ SyncRemote
  \/ DeleteRemote

SpecLocal == InitLocal /\ [][NextLocal]_vars

\* SpecUI: the handlers called only as the buttons call them.
NextUI ==
  \/ LoadData
  \/ \E i \in 1..Len(inflight), o \in Outcomes : ResolveSelect(i, o)
  \/ HandleOnline
  \/ HandleOffline
  \/ \E t \in Titles, a \in Addresses, d \in Dates, m \in SyncTimes,
        c \in SyncCostInputs : AddStop(t, a, d, m, c)
  \/ \E i \in 1..Len(stops) : ClickAktifkan(i)
  \/ ClickSelesaikan
  \/ ClickLewatiNext
  \/ \E i \in 1..Len(stops) : ClickSelesai(i)
  \/ \E i \in 1..Len(stops) : ClickAktifkanKembali(i)
  \/ \E i \in 1..Len(stops) : ClickLewati(i)
  \/ \E i \in 1..Len(stops) : ClickDelete(i)
  \/ SyncRemote
  \/ DeleteRemote
  \/ \E i \in 1..Len(inflight), o \in Outcomes : ResolveUpsert(i, o)
  \/ \E i \in 1..Len(inflight), o \in Outcomes : ResolveDelete(i, o)

SpecUI == Init /\ [][NextUI]_vars

\* SpecOnline: a session that stays online with the remote store configured
\* and whose upserts all succeed.  No cache is left by an earlier session, so
\* the spinner (line 259) keeps the handlers away until the select has
\* answered.  Stops are added through the form, whose fields may be left
\* blank.

InitOnline ==
  /\ stops = <<>>
  /\ isLoading = TRUE
  /\ isOnline = TRUE
  /\ supabase = TRUE
  /\ localCache = NoItem
  /\ remote \in InitRemotes
  /\ inflight = <<>>
  /\ pc = At("mount", "loadData", <<>>, UnknownId, NULL, NULL)
  /\ calls = 0
  /\ uncaught = FALSE
  /\ last = Step("init", NULL)
  /\ aiCache = {}
  /\ InitInsight

NextOnline ==
  \/ LoadData
  \/ \E i \in 1..Len(inflight), o \in Outcomes : ResolveSelect(i, o)
  \/ \E t \in FormTitles, a \in FormAddresses, d \in FormDates, m \in FormTimes,
        c \in SyncCostInputs : SubmitForm(t, a, d, m, c)
  \/ \E t \in FormTitles, a \in FormAddresses, d \in FormDates, m \in FormTimes :
       BlockedSubmit(t, a, d, m)
  \/ \E id \in CallIds, f \in ForceArgs : ToggleStatus(id, f)
  \/ SyncRemote
  \/ \E i \in 1..Len(inflight) : ResolveUpsert(i, "ok")

SpecOnline == InitOnline /\ [][NextOnline]_vars

\* SpecRemove: the online session of SpecOnline with deleteStop, every remote
\* request succeeding.  The select answers before the first handler runs
\* (spinner, line 259), so the collection starts as the remote's rows.
NextRemove ==
  \/ LoadData
  \/ \E i \in 1..Len(inflight) : ResolveSelect(i, "ok")
  \/ \E t \in Titles, a \in Addresses, d \in Dates, m \in SyncTimes,
        c \in SyncCostInputs : AddStop(t, a, d, m, c)
  \/ \E id \in CallIds, f \in ForceArgs : ToggleStatus(id, f)
  \/ \E id \in CallIds : DeleteStop(id)
  \/ SyncRemote
  \/ DeleteRemote
  \/ \E i \in 1..Len(inflight) : ResolveUpsert(i, "ok")
  \/ \E i \in 1..Len(inflight) : ResolveDelete(i, "ok")

SpecRemove == InitOnline /\ [][NextRemove]_vars

\* SpecAI: the itinerary kept on the device only, with the insight effect and
\* the generation service.  React runs a pending effect before it handles the
\* next event, so a handler starts only once the effect has settled.
InitAI ==
  /\ stops = <<>>
  /\ isLoading = TRUE
  /\ isOnline \in BOOLEAN
  /\ supabase = FALSE
  /\ localCache \in InitCaches
  /\ remote = {}
  /\ inflight = <<>>
  /\ pc = At("mount", "loadData", <<>>, UnknownId, NULL, NULL)
  /\ calls = 0
  /\ uncaught = FALSE
  /\ last = Step("init", NULL)
  /\ aiCache \in InitAiCaches
  /\ InitInsight

AiCanCall == pc = Idle /\ calls < MaxCalls /\ EffectSettled
\* A stop added for day 1, 08:00 goes between RB (08:00) and RA (09:00).
AiDates == {1}

NextAI ==
  \/ LoadData
  \/ RunEffect
  \/ /\ EffectSettled
     /\ \E i \in 1..Len(genInflight), r \in GenResponses : ResolveGenerate(i, r)
  \/ EffectSettled /\ HandleOnline
  \/ EffectSettled /\ HandleOffline
  \/ /\ AiCanCall
     /\ \E t \in AiTitles, a \in Addresses, d \in AiDates, m \in SyncTimes,
           c \in SyncCostInputs : AddStop(t, a, d, m, c)
  \/ /\ AiCanCall
     /\ \E id \in CallIds, f \in ForceArgs : ToggleStatus(id, f)
  \/ /\ AiCanCall
     /\ \E id \in CallIds : DeleteStop(id)
  \/ SyncRemote
  \/ DeleteRemote

SpecAI == InitAI /\ [][NextAI]_vars

\* SpecConnect: the whole component, the itinerary store with its remote and
\* the insight effect with the generation service, under connectivity
\* changes.  The remote store may be configured or not; the status buttons
\* that move the next stop (lines 462, 469, 683) change the collection, so
\* that changes made offline are pending when the connection returns.  A
\* pending effect runs before the next event is handled.
InitConnect ==
  /\ stops = <<>>
  /\ isLoading = TRUE
  /\ isOnline \in BOOLEAN
  /\ supabase \in BOOLEAN
  /\ localCache \in InitCaches
  /\ remote \in InitRemotes
  /\ inflight = <<>>
  /\ pc = At("mount", "loadData", <<>>, UnknownId, NULL, NULL)
  /\ calls = 0
  /\ uncaught = FALSE
  /\ last = Step("init", NULL)
  /\ aiCache \in InitAiCaches
  /\ InitInsight

\* The service rejects the call or answers with the JSON asked for.
ConnectResponses ==
  {GenResponse(TRUE, EmptyString),
   GenResponse(FALSE, JSONstringifyInsight(GeneratedInsight(1)))}

NextConnect ==
  \/ LoadData
  \/ RunEffect
  \/ /\ EffectSettled
     /\ \E i \in 1..Len(inflight), o \in Outcomes : ResolveSelect(i, o)
  \/ /\ EffectSettled
     /\ \E i \in 1..Len(genInflight), r \in ConnectResponses : ResolveGenerate(i, r)
  \/ EffectSettled /\ HandleOnline
  \/ EffectSettled /\ HandleOffline
  \/ AiCanCall /\ ClickSelesaikan
  \/ AiCanCall /\ ClickLewatiNext
  \/ AiCanCall /\ \E i \in 1..Len(stops) : ClickAktifkanKembali(i)
  \/ SyncRemote
  \/ /\ EffectSettled
     /\ \E i \in 1..Len(inflight) : ResolveUpsert(i, "ok")

SpecConnect == InitConnect /\ [][NextConnect]_vars

\* =========================================================== claims
Last(s) == s[Len(s)]
MutationOps == {"addStop", "toggleStatus", "deleteStop"}
IssueOps == {"syncRemote", "deleteRemote"}
Failed(op) == last'.op = op /\ last'.outcome \in {"error", "throw"}

\* ---------------------------------------------------------------- C1
\* C1: every mutation overwrites the in-memory collection and the local
\* cache with the full updated collection, online or offline, with or
\* without a remote store, before its remote request is issued: the step
\* that issues an upsert or a delete starts from a cache that already holds
\* the updated collection.
C1Step ==
  /\ last'.op \in MutationOps =>
       /\ stops' = pc'.updated
       /\ localCache' = Item(JSONstringify(pc'.updated))
       /\ inflight' = inflight
  /\ (Len(inflight') > Len(inflight) /\ Last(inflight').kind \in {"upsert", "delete"}) =>
       /\ last'.op \in IssueOps
       /\ pc.op \in MutationOps
       /\ stops = pc.updated
       /\ localCache = Item(JSONstringify(pc.updated))
\* C1: every step writes the collection and the cache before the request goes out.
C1_LocalBeforeRemote == [][C1Step]_vars

C1_Witness ==
  /\ last.op = "syncRemote"
  /\ inflight # <<>>
  /\ Last(inflight).kind = "upsert"
  /\ Last(inflight).rows # <<>>
  /\ localCache = Item(JSONstringify(Last(inflight).rows))
  /\ stops = Last(inflight).rows

\* ---------------------------------------------------------------- C2
\* C2: when the select of the startup load succeeds, the in-memory
\* collection and the local cache become exactly the remote's rows, ordered
\* by `order`; a stop the remote does not hold is gone, nothing is merged.
C2Step ==
  (last'.op = "resolveSelect" /\ last'.outcome = "ok") =>
    /\ Range(stops') = remote
    /\ Len(stops') = Cardinality(remote)
    /\ \A i, j \in 1..Len(stops') : i < j => stops'[i].order <= stops'[j].order
    /\ localCache'.has
    /\ JSONparse(localCache'.text) = stops'
    /\ \A i \in 1..Len(stops) : stops[i] \notin remote => stops[i] \notin Range(stops')
    /\ ~isLoading'
\* C2: every successful load step replaces collection and cache by the remote's rows.
C2_RemoteWinsOnLoad == [][C2Step]_vars

\* A mutation made while the select was in flight is dropped by the load.
C2_Witness ==
  /\ last = Step("resolveSelect", "ok")
  /\ remote = {}
  /\ stops = <<>>
  /\ localCache = Item(<<>>)
  /\ inflight # <<>>
  /\ inflight[1].kind = "upsert"
  /\ inflight[1].rows # <<>>

\* ---------------------------------------------------------------- C3
\* C3: when the select of the startup load fails (an error result or a
\* rejection), the in-memory collection and the local cache are left as
\* they are (the collection read from the cache when no mutation came in
\* between), the loading flag is cleared and no error escapes.
C3Step ==
  Failed("resolveSelect") =>
    /\ stops' = stops
    /\ localCache' = localCache
    /\ calls = 0 => stops' = (IF localCache.has THEN JSONparse(localCache.text) ELSE <<>>)
    /\ ~isLoading'
    /\ ~uncaught'
\* C3: every failed load step keeps collection and cache and ends the load.
C3_LoadFailureKeepsCache == [][C3Step]_vars

C3_Witness ==
  /\ last = Step("resolveSelect", "error")
  /\ calls = 0
  /\ stops = <<RB, RA>>
  /\ localCache = Item(JSONstringify(stops))
  /\ remote = {}
  /\ ~isLoading
  /\ ~uncaught

\* ---------------------------------------------------------------- C4
\* C4: a failed upsert or delete leaves the in-memory collection and the
\* local cache at their post-mutation value, issues no retry, lets no error
\* escape and leaves the handlers callable; the step that decides on the
\* remote request changes neither the collection nor the cache, so a remote
\* that always fails leaves what no remote leaves.
C4Step ==
  /\ (Failed("resolveUpsert") \/ Failed("resolveDelete")) =>
       /\ stops' = stops
       /\ localCache' = localCache
       /\ remote' = remote
       /\ Len(inflight') = Len(inflight) - 1
       /\ ~uncaught'
       /\ pc' = Idle
       /\ UiReady => UiReady'
  /\ last'.op \in IssueOps =>
       /\ stops' = stops
       /\ localCache' = localCache
       /\ stops' = pc.updated
       /\ ~uncaught'
\* C4: every failed upsert or delete keeps the local state, without retry or error.
C4_MutationFailureKeepsLocal == [][C4Step]_vars

\* After a failed upsert a second mutation has run to its end.
C4_Witness ==
  /\ last = Step("resolveUpsert", "throw")
  /\ calls = 2
  /\ inflight = <<>>
  /\ stops # <<>>
  /\ localCache = Item(JSONstringify(stops))
  /\ Range(stops) # remote
  /\ ~uncaught

\* ---------------------------------------------------------------- C5
\* C5: online with a remote configured, an add or a status change issues
\* exactly one request, an upsert of the whole in-memory collection, and a
\* remove issues exactly one request, a delete of that id, and no upsert.
C5Step ==
  /\ last'.op \in MutationOps => inflight' = inflight
  /\ (last'.op = "syncRemote" /\ isOnline /\ supabase) =>
       /\ pc.op \in {"addStop", "toggleStatus"}
       /\ inflight' = Append(inflight, Request("upsert", stops, UnknownId))
  /\ (last'.op = "deleteRemote" /\ isOnline /\ supabase) =>
       /\ pc.op = "deleteStop"
       /\ inflight' = Append(inflight, Request("delete", <<>>, pc.id))
\* C5: every synced mutation issues its one request: a full upsert, or a delete by id.
C5_OneRequestPerMutation == [][C5Step]_vars

C5_Witness ==
  /\ last.op = "deleteRemote"
  /\ Len(inflight) = 2
  /\ inflight[1].kind = "upsert"
  /\ Len(inflight[1].rows) = 2
  /\ inflight[2].kind = "delete"
  /\ inflight[2].id \notin Ids(stops)
  /\ inflight[2].id \in Ids(inflight[1].rows)

\* ---------------------------------------------------------------- C6
\* C6: with no remote store configured, or offline when the handler runs,
\* the startup load and every mutation issue no request and raise no
\* error; the load still shows the cached collection and the mutation still
\* overwrites the collection and the cache.
C6Step ==
  ~(isOnline /\ supabase) =>
    /\ last'.op = "loadData" =>
         /\ inflight' = inflight
         /\ stops' = (IF localCache.has THEN JSONparse(localCache.text) ELSE <<>>)
         /\ localCache' = localCache
         /\ ~isLoading'
         /\ ~uncaught'
    /\ last'.op \in MutationOps =>
         /\ inflight' = inflight
         /\ stops' = pc'.updated
         /\ localCache' = Item(JSONstringify(stops'))
         /\ ~uncaught'
    /\ last'.op \in IssueOps =>
         /\ inflight' = inflight
         /\ pc' = Idle
         /\ ~uncaught'
\* C6: without remote or offline, every load and mutation stays local.
C6_LocalOnly == [][C6Step]_vars

C6_Witness ==
  /\ last.op = "syncRemote"
  /\ supabase
  /\ ~isOnline
  /\ inflight = <<>>
  /\ calls = 1
  /\ Len(stops) = 3
  /\ localCache = Item(JSONstringify(stops))

\* ---------------------------------------------------------------- C7
\* C7: nextStop is undefined exactly when no stop is planned; otherwise it
\* is a stop of the collection with status planned whose dateTime is not
\* later than that of any planned stop.
NotLater(a, b) == a[1] < b[1] \/ (a[1] = b[1] /\ a[2] <= b[2])
C7_NextStopEarliestPlanned ==
  /\ (nextStop = Undefined) <=> (\A i \in 1..Len(stops) : stops[i].status # "planned")
  /\ nextStop # Undefined =>
       /\ nextStop \in Range(stops)
       /\ nextStop.status = "planned"
       /\ \A i \in 1..Len(stops) :
            stops[i].status = "planned" => NotLater(nextStop.dateTime, stops[i].dateTime)

\* The collection is not in dateTime order and its first planned stop is not
\* the earliest one.
C7_Witness ==
  /\ Len(stops) >= 2
  /\ stops[1].status = "planned"
  /\ nextStop # Undefined
  /\ nextStop # stops[1]
  /\ ~NotLater(stops[1].dateTime, nextStop.dateTime)

\* ---------------------------------------------------------------- C8
\* C8: sortedStops holds exactly the stops of the collection, in
\* non-decreasing dateTime, stops of equal dateTime in the order the
\* collection has them; an add puts exactly the new stop into the
\* collection, after the stops that have its dateTime.
PosIn(ss, id) == CHOOSE i \in 1..Len(ss) : ss[i].id = id
C8Sorted(ss, sorted) ==
  /\ Len(sorted) = Len(ss)
  /\ Range(sorted) = Range(ss)
  /\ \A i, j \in 1..Len(sorted) :
       i < j =>
         /\ NotLater(sorted[i].dateTime, sorted[j].dateTime)
         /\ sorted[i].dateTime = sorted[j].dateTime =>
              PosIn(ss, sorted[i].id) < PosIn(ss, sorted[j].id)
C8Step ==
  \A sorted \in {SortedStopsOf(stops')} :
    /\ C8Sorted(stops', sorted)
    /\ last'.op = "addStop" =>
         /\ Len(stops') = Len(stops) + 1
         /\ pc'.id \notin Ids(stops)
         /\ sorted = stops'
         /\ \A n \in {PosIn(stops', pc'.id)} :
              /\ Range(stops') = Range(stops) \cup {stops'[n]}
              /\ \A i \in 1..Len(stops') :
                   (i # n /\ stops'[i].dateTime = stops'[n].dateTime) => i < n
\* C8: every step leaves sortedStops a stable dateTime ordering of the collection.
C8_SortedStable == [][C8Step]_vars

\* Two adds of one dateTime: the later one stands right after the earlier.
C8_Witness ==
  /\ last.op = "addStop"
  /\ calls = 2
  /\ \E i \in 1..Len(stops) - 1 :
       /\ stops[i].id = FreshId(1)
       /\ stops[i + 1].id = FreshId(2)
       /\ stops[i].dateTime = stops[i + 1].dateTime
  /\ \E i \in 1..Len(stops) - 1 : ~NotLater(stops[i + 1].dateTime, stops[i].dateTime)

\* ---------------------------------------------------------------- C9
\* C9: totalCost is the sum of the costs of the planned, the visited and the
\* skipped stops together, and a status change, with or without a target,
\* for an id the collection holds or not, leaves it as it was.
RECURSIVE SumCost(_, _)
SumCost(ss, idx) ==
  IF idx = {} THEN 0
  ELSE LET i == CHOOSE k \in idx : TRUE
       IN  ss[i].cost + SumCost(ss, idx \ {i})
WithStatus(ss, status) == {i \in 1..Len(ss) : ss[i].status = status}
C9Sum(ss) ==
  SumCost(ss, WithStatus(ss, "planned")) + SumCost(ss, WithStatus(ss, "visited"))
    + SumCost(ss, WithStatus(ss, "skipped"))
C9Step ==
  /\ TotalCostOf(stops') = C9Sum(stops')
  /\ last'.op = "toggleStatus" => TotalCostOf(stops') = totalCost
\* C9: every step leaves totalCost the sum over all stops, status changes keep it.
C9_TotalCost == [][C9Step]_vars

C9_Witness ==
  /\ pc.at = "syncData"
  /\ pc.op = "toggleStatus"
  /\ pc.prev = "planned"
  /\ StatusOf(stops, pc.id) = "skipped"
  /\ (CHOOSE s \in Range(stops) : s.id = pc.id).cost = 2
  /\ totalCost = 5
  /\ Len(stops) = 3

\* --------------------------------------------------------------- C10
\* C10 as stated: the buttons move a stop only planned -> visited,
\* visited -> planned, planned -> skipped or skipped -> planned, and a
\* status is always planned, visited or skipped.
StatusTransitions(allowed) ==
  /\ \A i \in 1..Len(stops') : stops'[i].status \in Statuses
  /\ last'.op = "toggleStatus" =>
       /\ Len(stops') = Len(stops)
       /\ \A i \in 1..Len(stops) :
            \/ stops'[i].status = stops[i].status
            \/ <<stops[i].status, stops'[i].status>> \in allowed
SpecTransitions ==
  {<<"planned", "visited">>, <<"visited", "planned">>,
   <<"planned", "skipped">>, <<"skipped", "planned">>}
C10_Original == [][StatusTransitions(SpecTransitions)]_vars

\* C10 as amended: the buttons never move a stop from visited to skipped;
\* the "Selesai" button of the list also moves a skipped stop straight to
\* visited.
C10_NoVisitedToSkipped ==
  [][StatusTransitions(SpecTransitions \cup {<<"skipped", "visited">>})]_vars

C10_Witness ==
  /\ pc.at = "syncData"
  /\ pc.op = "toggleStatus"
  /\ pc.force = "visited"
  /\ pc.prev = "skipped"
  /\ StatusOf(stops, pc.id) = "visited"

\* ---------------------------------------------------------------- C11
StopWithId(ss, id) == CHOOSE s \in Range(ss) : s.id = id
BlankField(s) ==
  \/ s.title = ""
  \/ s.address = ""
  \/ s.dateTime[1] = NoDate
  \/ s.dateTime[2] = NoTime
C11Step ==
  /\ last'.op = "blockedSubmit" =>
       /\ UNCHANGED <<stops, localCache, remote, inflight>>
       /\ UNCHANGED <<pc, calls, isLoading, uncaught>>
  /\ last'.op = "addStop" =>
       /\ pc'.id \in Ids(stops')
       /\ ~BlankField(StopWithId(stops', pc'.id))
\* C11: an add whose title, address, date or time is blank is rejected
\* before any state mutation: the collection, the local cache and the remote
\* store stay as they were and no remote request is issued; the stop of
\* every add that does run has none of these fields blank.
C11_BlankAddRejected == [][C11Step]_vars

\* A submit with a blank field was withheld after an earlier add went through.
C11_Witness ==
  /\ last = Step("blockedSubmit", NULL)
  /\ calls = 1
  /\ Len(stops) = 1
  /\ localCache = Item(JSONstringify(stops))
  /\ inflight # <<>>

\* ---------------------------------------------------------------- C12
C12Target(status, force) ==
  CASE force \in Statuses -> force
    [] force = NULL /\ status = "visited" -> "planned"
    [] OTHER -> "visited"
C12Step ==
  /\ last'.op = "toggleStatus" =>
       /\ Len(stops') = Len(stops)
       /\ \A i \in 1..Len(stops) :
            stops'[i] = IF stops[i].id = pc'.id
                          THEN [stops[i] EXCEPT !.status =
                                  C12Target(stops[i].status, pc'.force)]
                          ELSE stops[i]
       /\ pc'.id \notin Ids(stops) => stops' = stops
       /\ localCache' = Item(JSONstringify(stops'))
       /\ pc'.at = "syncData"
  /\ (last'.op = "syncRemote" /\ pc.op = "toggleStatus") =>
       inflight' = IF isOnline /\ supabase
                     THEN Append(inflight, Request("upsert", stops, UnknownId))
                     ELSE inflight
\* C12: a status change without a target turns a visited stop into planned
\* and any other stop into visited, one with a target sets that target; only
\* the status of the stop with that id changes; for an id no stop has the
\* collection stays as it is and the cache is still overwritten and, online
\* with a remote store, the whole collection is still upserted.
C12_SetStatus == [][C12Step]_vars

\* A skipped stop was flipped, without a target, to visited.
C12_Witness ==
  /\ pc.at = "syncData"
  /\ pc.op = "toggleStatus"
  /\ pc.force = NULL
  /\ pc.prev = "skipped"
  /\ StatusOf(stops, pc.id) = "visited"
  /\ Len(stops) = 2

\* ---------------------------------------------------------------- C13
\* The state one setStatus(id, 'visited') leaves: the stop, if there is one,
\* is visited and the cache holds the collection.
AfterVisited(ss, cache, id) ==
  /\ StatusOf(ss, id) \in {"visited", NULL}
  /\ cache = Item(JSONstringify(ss))
C13Step ==
  (last'.op = "toggleStatus" /\ pc'.force = "visited") =>
    /\ AfterVisited(stops', localCache', pc'.id)
    /\ AfterVisited(stops, localCache, pc'.id) =>
         /\ stops' = stops
         /\ localCache' = localCache
\* C13: setStatus(id, 'visited') is idempotent: a call made in the state an
\* earlier such call left changes neither the collection nor the cache.
C13_VisitedIdempotent == [][C13Step]_vars

\* The second of two setStatus(id, 'visited') calls on the same stop.
C13_Witness ==
  /\ pc.at = "syncData"
  /\ pc.op = "toggleStatus"
  /\ pc.force = "visited"
  /\ pc.prev = "visited"
  /\ pc.id \in Ids(stops)
  /\ calls = 2
  /\ localCache = Item(JSONstringify(stops))

\* ---------------------------------------------------------------- C14
\* The insight effect ran fetchAiInsights for the stop `s` in this step.
Fetched(s) == last'.op = "effect" /\ s = NextStopOf(stops) /\ s # Undefined
\* The texts the cache holds under the key of `id`: none or one.
CachedTexts(cache, id) == {e.text : e \in {f \in cache : f.id = id}}
C14Hit ==
  \A s \in {NextStopOf(stops)} : \A text \in CachedTexts(aiCache, s.id) :
    Fetched(s) =>
      /\ aiInsights' = Shown(JSONparseInsight(text))
      /\ genInflight' = genInflight
      /\ aiCache' = aiCache
\* C14 as stated: a resolution that finds a cache entry for the stop's id
\* shows that entry as it is and issues no generation request, online or
\* offline; and an entry, once written, is what every later resolution for
\* the id returns: no step removes it or puts another in its place.
C14_Original == [][C14Hit /\ \A e \in aiCache : e \in aiCache']_vars

C14Step ==
  /\ C14Hit
  /\ \A e \in aiCache : CachedTexts(aiCache', e.id) # {}
  /\ \A e \in aiCache : e \notin aiCache' =>
       /\ last'.op = "resolveGenerate"
       /\ \E i \in 1..Len(genInflight) :
            genInflight' = RemoveAt(genInflight, i) /\ genInflight[i].id = e.id
  /\ Len(genInflight') > Len(genInflight) =>
       CachedTexts(aiCache, Last(genInflight').id) = {}
\* C14: a resolution that finds a cache entry for the stop's id shows that
\* entry as it is and issues no generation request, online or offline; no
\* step removes an entry; an entry is replaced only by the answer to a
\* generation request for the same id, and such a request is issued only
\* while the id has no entry.
C14_CacheHit == [][C14Step]_vars

\* A cache hit while online, after the entry was written in this session.
C14_Witness ==
  /\ last.op = "effect"
  /\ isOnline
  /\ nextStop # Undefined
  /\ nextStop.id # RA.id
  /\ CachedTexts(aiCache, nextStop.id) # {}
  /\ \A text \in CachedTexts(aiCache, nextStop.id) :
       aiInsights = Shown(JSONparseInsight(text))
  /\ genInflight = <<>>

\* ---------------------------------------------------------------- C15
OfflineWeather == "Cek langit secara manual (Mode Offline)"
OfflineRecommendations == "Tanya warga lokal untuk spot terbaik."
\* The canned set a title is to get, by its category.
C15Heuristic(title) ==
  CASE title = "Pantai Kuta" ->
         Insight("Biasanya ada biaya parkir & sewa payung.", OfflineWeather,
                 OfflineRecommendations,
                 "Bawa sunblock, baju ganti, dan kacamata hitam.")
    [] title = "Candi Borobudur" ->
         Insight("Siapkan biaya tiket masuk (biasanya Rp 20rb - 100rb).",
                 OfflineWeather, OfflineRecommendations,
                 "Gunakan sepatu nyaman dan bawa topi.")
    [] OTHER ->
         Insight("Siapkan uang tunai untuk parkir/jajan.", OfflineWeather,
                 OfflineRecommendations, "Siapkan peta offline dan air minum.")
C15Step ==
  /\ \A s \in {NextStopOf(stops)} :
       (Fetched(s) /\ ~isOnline /\ CachedTexts(aiCache, s.id) = {}) =>
         /\ aiInsights' = Shown(C15Heuristic(s.title))
         /\ genInflight' = genInflight
         /\ aiCache' = aiCache
  /\ \A e \in aiCache' : JSONparseInsight(e.text).weather # OfflineWeather
\* C15: a resolution made offline for a stop whose id has no cache entry
\* shows the keyword heuristic for the stop's title (the beach set for a
\* title containing 'pantai' in any case, the default set for a title of no
\* category), issues no generation request and writes nothing to the insight
\* cache; and the insight cache never holds a heuristic result.
C15_OfflineHeuristic == [][C15Step]_vars

\* Offline, the beach set is shown for "Pantai Kuta" and is not cached.
C15_Witness ==
  /\ last.op = "effect"
  /\ ~isOnline
  /\ nextStop.title = "Pantai Kuta"
  /\ aiInsights.has
  /\ aiInsights.data.tips = "Bawa sunblock, baju ganti, dan kacamata hitam."
  /\ CachedTexts(aiCache, nextStop.id) = {}
  /\ genInflight = <<>>

\* ---------------------------------------------------------------- C16
FourFields(d) ==
  d.costs # NULL /\ d.weather # NULL /\ d.recommendations # NULL /\ d.tips # NULL
C16Step ==
  last'.op = "resolveGenerate" =>
    /\ last'.outcome \in {"rejected", "empty", "malformed"} =>
         /\ aiCache' = aiCache
         /\ \E i \in 1..Len(genInflight) :
              /\ genInflight' = RemoveAt(genInflight, i)
              /\ aiInsights' = Shown(getSmartFallback(genInflight[i].title))
    /\ \A e \in aiCache' : e \notin aiCache => FourFields(JSONparseInsight(e.text))
\* C16: when the generation request fails (it rejects, or its answer is
\* empty, has none of the fields, or does not parse), the heuristic for the
\* stop is shown and nothing is written to the insight cache; an entry is
\* written only for an answer that parsed as the four advisory fields.
C16_FailureFallsBack == [][C16Step]_vars

\* The empty answer is shown and cached as an object without fields.
C16_Witness ==
  /\ last = Step("resolveGenerate", "empty")
  /\ aiInsights = Shown(EmptyObject)
  /\ \E e \in aiCache : JSONparseInsight(e.text) = EmptyObject

\* ---------------------------------------------------------------- C17
\* C17: whenever no stop is planned and the insight effect has run for that
\* change, no insight is displayed, whatever the order in which handlers,
\* effect and generation answers interleave.
C17_NoInsightWithoutNextStop ==
  (pc = Idle /\ EffectSettled /\ nextStop = Undefined) => aiInsights = NoInsight

\* The answer for a stop that is no longer planned is on display.
C17_Witness ==
  /\ last.op = "resolveGenerate"
  /\ nextStop = Undefined
  /\ EffectSettled
  /\ aiInsights.has
  /\ stops # <<>>

\* ---------------------------------------------------------------- C18
C18Step ==
  last'.op \in {"online", "offline"} =>
    /\ isOnline' = ~isOnline
    /\ UNCHANGED <<stops, localCache, remote, aiCache, aiInsights>>
    /\ UNCHANGED <<inflight, genInflight, isLoading, isLoadingAi, pc>>
    /\ UNCHANGED <<supabase, calls, uncaught>>
    /\ EffectDeps(stops', isOnline') = effectDeps'
\* C18: a connectivity transition flips the connectivity flag and nothing
\* else: collection, local cache, remote store, insight cache and displayed
\* insight stay as they are, no remote request and no generation request is
\* issued, and the insight effect is not due to run again.  Checked with the
\* remote store configured or not, with requests in flight or none, and with
\* changes made offline that the remote store has not received.
C18_ConnectivityFrame == [][C18Step]_vars

\* Back online with the remote store configured: the stop skipped while
\* offline is in the collection and the cache but not in the remote store,
\* nothing has been sent, and the offline heuristic for the next stop is
\* still on display with nothing requested.
C18_Witness ==
  /\ last.op = "online"
  /\ isOnline
  /\ supabase
  /\ \E s \in Range(stops) : s.status = "skipped" /\ s \notin remote
  /\ localCache = Item(JSONstringify(stops))
  /\ inflight = <<>>
  /\ nextStop # Undefined
  /\ CachedTexts(aiCache, nextStop.id) = {}
  /\ aiInsights = Shown(getSmartFallback(nextStop.title))
  /\ genInflight = <<>>
  /\ ~isLoadingAi

\* ---------------------------------------------------------------- C20
\* The insights a resolution for stop `s` can have produced: its cache
\* entry (where its online answer is kept) or the heuristic for its title.
ResolvedFor(s) ==
  {getSmartFallback(s.title)}
    \cup {JSONparseInsight(text) : text \in CachedTexts(aiCache, s.id)}
\* C20: whenever no generation request is in flight and a stop is next, the
\* insight displayed is one resolved for that stop, never one resolved for
\* another stop, also when the next stop changed while an earlier request
\* was in flight.
C20_InsightOfNextStop ==
  (pc = Idle /\ EffectSettled /\ genInflight = <<>> /\ nextStop # Undefined) =>
    (aiInsights.has /\ aiInsights.data \in ResolvedFor(nextStop))

\* The answer for another stop is on display for the next stop.
C20_Witness ==
  /\ last = Step("resolveGenerate", "ok")
  /\ pc = Idle /\ EffectSettled /\ genInflight = <<>>
  /\ nextStop # Undefined
  /\ aiInsights.has
  /\ aiInsights.data \notin ResolvedFor(nextStop)
  /\ \E e \in aiCache : e.id # nextStop.id /\ aiInsights.data = JSONparseInsight(e.text)

\* ---------------------------------------------------------------- C19
\* C19: after adds and status changes made online with the remote store
\* configured, all upserts succeeding and resolving in any order, once no
\* request is in flight the remote store holds, for every stop of the
\* in-memory collection, a row equal to that stop.
C19_RemoteConverges ==
  (pc = Idle /\ inflight = <<>> /\ calls > 0) =>
    \A i \in 1..Len(stops) : stops[i] \in remote

\* Nothing is in flight and the remote row of a stop has another status.
C19_Witness ==
  /\ last = Step("resolveUpsert", "ok")
  /\ pc = Idle
  /\ inflight = <<>>
  /\ \E i \in 1..Len(stops) : \E r \in remote :
       r.id = stops[i].id /\ r.status # stops[i].status

\* ---------------------------------------------------------------- C21
\* The ids addStop has given out that the collection holds.
AddedIds(ss, n) == {FreshId(k) : k \in 1..n} \cap Ids(ss)
InCache(cache, id) == cache.has /\ id \in Ids(JSONparse(cache.text))
C21Step ==
  \A id \in AddedIds(stops, calls) :
    \/ last'.op = "deleteStop" /\ pc'.id = id
    \/ id \in Ids(stops') /\ InCache(localCache', id)
\* C21: a stop added by addStop stays in the in-memory collection and in
\* the local cache in every later state until deleteStop is called for it,
\* also when the select of the startup load was issued before the add and
\* succeeds after it.
C21_AddedStaysUntilRemoved == [][C21Step]_vars

\* The only operation so far was an add; its stop reached the remote store
\* and is neither in the collection nor in the cache.
C21_Witness ==
  /\ last = Step("resolveUpsert", "ok")
  /\ calls = 1
  /\ FreshId(1) \in {r.id : r \in remote}
  /\ FreshId(1) \notin Ids(stops)
  /\ ~InCache(localCache, FreshId(1))

\* ---------------------------------------------------------------- C22
\* In SpecRemove the collection loses an id only by deleteStop and the
\* remote store gains rows only from upserts of the collection, so a remote
\* row whose id the collection lacks is the row of a removed stop.
\* C22: after deleteStop(id), online with the remote store configured and
\* every remote request succeeding, the remote store holds no row with that
\* id once no request is in flight, also when an upsert issued by an earlier
\* add or status change was in flight when the delete was issued.
C22_RemovedLeavesRemote ==
  (pc = Idle /\ inflight = <<>>) => \A r \in remote : r.id \in Ids(stops)

\* Nothing is in flight and the remote store holds the row of a removed stop.
C22_Witness ==
  /\ last = Step("resolveUpsert", "ok")
  /\ pc = Idle
  /\ inflight = <<>>
  /\ calls = 2
  /\ \E r \in remote : r.id \notin Ids(stops)

====
